---- MODULE Spec2Model ----
(***************************************************************************)
(* The training-plan generation pipeline of codetrekking's mastra          *)
(* application: the running-phase workflow (generate phases, save them),   *)
(* the generate-detailed-workouts workflow (week enhancer, fan-out of the  *)
(* daily workout expander, aggregate) and its older variant.               *)
(*                                                                         *)
(* One behaviour is one workflow run.  Every await of the TypeScript code  *)
(* is a point where an action ends; the environment (the generation        *)
(* backend, the storage API) picks the outcome of each awaited call.       *)
(***************************************************************************)
EXTENDS Naturals, Integers, Sequences, FiniteSets, TLC

(***************************************************************************)
(* Bounds of the model.                                                    *)
(***************************************************************************)
\* the longest batch the environment produces under Spec
MaxBatch == 2
\* the longest phase list the phase planner's generation returns
MaxPhases == 3
\* the longest race schedule and the latest race date (a day number) under
\* SpecPlanner
MaxRaces == 2
MaxRaceDate == 3
\* the instants of a day that `today` is drawn from, and how many days before
\* day 0 it reaches back, under SpecPlanner
TicksPerDay == 2
MaxDaysBack == 15
\* the longest array the week enhancer's generation returns under SpecEnhancer
MaxArray == 3
\* the longest detail list of a generated workout plan under SpecDetail
MaxDetail == 3
\* the most resolutions of the workout expert's tools under SpecResolver
MaxResolutions == 3

(***************************************************************************)
(* Program constants.                                                      *)
(***************************************************************************)
\* const maxRetries = 3
maxRetries == 3
\* .foreach(processDailyWorkout, { concurrency: 7 })
WeekConcurrency == 7
\* .foreach(processDailyWorkout, { concurrency: 3 }) of the older variant
LegacyConcurrency == 3
\* workouts: z.array(...).min(1).max(7) of the older variant
MinWorkouts == 1
MaxWorkouts == 7
\* available_days_per_week: z.number().min(3).max(7)
MinDays == 3
MaxDays == 7

\* agents registered with the Mastra instance
RegisteredAgents == {"runningCoach", "workoutExpert", "phasePlanner", "workoutEnhancer"}

\* mastra?.getAgent(name): undefined when no such agent is registered
getAgent(name) == name \in RegisteredAgents

VARIABLES
    wf,           \* the workflow this run executes: "none" | "phase" | "week" | "legacy"
    wfpc,         \* where the run is
    accessToken,  \* runtimeContext.get('accessToken') is set
    batch,        \* the list the foreach iterates over
    items,        \* per batch item: the state of its processDailyWorkout invocation
    chunkLo,      \* foreach: index of the first item of the current chunk
    results,      \* foreach: the outputs collected so far, in batch order
    workoutMap,   \* aggregateWorkouts' result: the set of [id, plan] entries
    wfError,      \* the error the run failed with
    phases,       \* the phase list that generate-training-phases returned
    saveIdx,      \* save-to-database: index of the phase being saved
    savePc,       \* save-to-database: where the step is
    saveResp,     \* save-to-database: the non-2xx response being read
    phaseLog,     \* storage API: the phase_ids of the POSTs it received, in order
    phaseSaved,   \* storage API: the phase_ids it answered 2xx, in order
    wfOutput,     \* the phases the phase workflow returned
    planner,      \* generate-training-phases: its input, what it derived, its calls
    enhancer,     \* enhance-weekly-workouts: its input and its calls
    resolver      \* workoutExpert: its toolsCache, the MCP clients created, the resolutions

vars == <<wf, wfpc, accessToken, batch, items, chunkLo, results, workoutMap,
          wfError, phases, saveIdx, savePc, saveResp, phaseLog, phaseSaved,
          wfOutput, planner, enhancer, resolver>>

foreachVars == <<batch, items, chunkLo, results, workoutMap>>
phaseVars == <<phases, saveIdx, savePc, saveResp, phaseLog, phaseSaved, wfOutput>>

(***************************************************************************)
(* Values.                                                                 *)
(***************************************************************************)
\* result.object of a generation call that produced no structured output
NoObject == 0

\* the object the k-th generation call of an invocation returns
ObjectOfCall(k) == k

\* let lastError = null; an error is told apart by the attempt it came from
NoError == [kind |-> "none", at |-> 0]

\* the three ways an awaited agent.generate can end
GenOutcomes == {"object", "null", "throw"}

\* the ways the awaited fetch can end: 2xx, non-2xx, rejected promise
FetchOutcomes == {"ok", "rejected", "network"}

\* the ways an awaited response.text() / response.json() can end
BodyOutcomes == {"read", "unreadable"}

\* statuses and bodies of the non-2xx responses the storage API gives
RejectStatuses == {422, 500}
ErrorBodies == {"detail", "trace"}

NoResponse == [status |-> 0, body |-> ""]

\* an Error thrown by a step
Err(kind, id, cause, status, body) ==
    [kind |-> kind, id |-> id, cause |-> cause, status |-> status, body |-> body]

NoFailure == Err("none", 0, NoError, 0, "")

\* a WorkoutItem: a segment, or a loop marker with its id
Segment == [type |-> "segment", id |-> 0]
LoopStart(id) == [type |-> "loop_start", id |-> id]
LoopEnd(id) == [type |-> "loop_end", id |-> id]

\* z.union([WorkoutSegmentSchema, LoopStartSchema, LoopEndSchema])
WorkoutItems == {Segment} \cup {LoopStart(k) : k \in 1..2} \cup {LoopEnd(k) : k \in 1..2}

\* detail: z.array(WorkoutItemSchema), every list up to the bound
Details == UNION {[1..n -> WorkoutItems] : n \in 0..MaxDetail}

\* the detail of the plans generated in a full run: one loop around a segment
LoopedDetail == <<LoopStart(1), Segment, LoopEnd(1)>>

\* the workoutPlanOutput object
NoPlan == [object |-> NoObject, workout_id |-> 0, stored |-> FALSE]

\* a processDailyWorkout invocation that has not been dispatched
PendingItem ==
    [pc |-> "pending", dispatches |-> 0, attempt |-> 0, calls |-> 0, genLog |-> <<>>,
     finalResult |-> NoObject, lastError |-> NoError, waits |-> <<>>,
     detail |-> <<>>, plan |-> NoPlan, persist |-> "none", reqs |-> 0,
     day_of_week |-> 0, error |-> NoFailure]

Min(a, b) == IF a < b THEN a ELSE b

(***************************************************************************)
(* processDailyWorkout (week workflow): the retry loop.                    *)
(***************************************************************************)
\* the break forgotten
BreaksLoop_Never(finalResult) == FALSE

\* if (finalResult) { ...; break; }
BreaksLoop(finalResult) == finalResult # NoObject

\* if (!finalResult) throw new Error(...), after the loop
ThrowsAfterLoop(finalResult) == finalResult = NoObject

\* attempt <= maxRetries instead of attempt < maxRetries
LoopContinues_OneMore(attempt) == attempt <= maxRetries

\* if (attempt < maxRetries): another attempt follows the failed one
LoopContinues(attempt) == attempt < maxRetries

\* const waitMs = Math.pow(2, attempt - 1) * 1000
WaitMs(attempt) == (2 ^ (attempt - 1)) * 1000

\* lastError = new Error(`No structured output ... (attempt ${attempt})`) | error
NextLastError(outcome, attempt) ==
    [kind |-> IF outcome = "null" THEN "NoStructuredOutput" ELSE "Thrown",
     at |-> attempt]

\* lastError?.message || 'Invalid structured output'
FailureCause(lastError) ==
    IF lastError.kind = "none"
    THEN [kind |-> "InvalidStructuredOutput", at |-> 0]
    ELSE lastError

\* { ...finalResult, workout_id: id, week_id, date, phase_id, stored: false }
BuildWorkoutPlanOutput(finalResult, id) ==
    [object |-> finalResult, workout_id |-> id, stored |-> FALSE]

\* if (!accessToken) skip the storage call
SkipsStorage(token) == ~token

\* stored set whatever the response
AfterResponse_AlwaysStored(plan, responseOk) == [plan EXCEPT !.stored = TRUE]

\* if (response.ok) workoutPlanOutput.stored = true
AfterResponse(plan, responseOk) ==
    IF responseOk THEN [plan EXCEPT !.stored = TRUE] ELSE plan

\* execute() up to its first await: the agent lookup, then attempt 1 is issued
StartExpander(it, id) ==
    IF ~getAgent("workoutExpert")
    THEN [it EXCEPT !.pc = "failed",
                    !.error = Err("AgentNotFound", id, NoError, 0, "")]
    ELSE [it EXCEPT !.pc = "calling", !.attempt = 1, !.calls = 1]

\* new Date(date).getDay(): 0 = Sunday .. 6 = Saturday
GetDay(date) == date % 7

\* the weekday shifted by one without the Sunday case
AdjustedDayOfWeek_NoWrap(dayOfWeek) == dayOfWeek - 1

\* const adjustedDayOfWeek = dayOfWeek === 0 ? 6 : dayOfWeek - 1
AdjustedDayOfWeek(dayOfWeek) == IF dayOfWeek = 0 THEN 6 ELSE dayOfWeek - 1

\* the storage call skipped as soon as a sibling invocation has failed
AfterGeneration_UnlessSiblingFailed(it, request, token) ==
    LET out == BuildWorkoutPlanOutput(it.finalResult, request.id) IN
    IF SkipsStorage(token) \/ \E j \in DOMAIN items : items[j].pc = "failed"
    THEN [it EXCEPT !.plan = out, !.persist = "skipped", !.pc = "done"]
    ELSE [it EXCEPT !.plan = out, !.persist = "sent", !.reqs = @ + 1,
                    !.day_of_week = AdjustedDayOfWeek(GetDay(request.date)),
                    !.pc = "storing"]

\* the code that follows the loop when finalResult is set, up to the next
\* await: the plan is built and, with a token, the apiRequest is posted
AfterGeneration(it, request, token) ==
    LET out == BuildWorkoutPlanOutput(it.finalResult, request.id) IN
    IF SkipsStorage(token)
    THEN [it EXCEPT !.plan = out, !.persist = "skipped", !.pc = "done"]
    ELSE [it EXCEPT !.plan = out, !.persist = "sent", !.reqs = @ + 1,
                    !.day_of_week = AdjustedDayOfWeek(GetDay(request.date)),
                    !.pc = "storing"]

\* the code that follows the loop, up to the next await or the return
AfterLoop(it, request, token) ==
    IF ThrowsAfterLoop(it.finalResult)
    THEN [it EXCEPT !.pc = "failed",
                    !.error = Err("GenerationFailed", request.id,
                                  FailureCause(it.lastError), 0, "")]
    ELSE AfterGeneration(it, request, token)

\* lastError kept from the first failure (lastError = lastError ?? error)
AfterAttempt_KeepsFirstError(it, outcome) ==
    LET n == it.attempt
        logged == [it EXCEPT !.genLog = Append(@, outcome)]
        le == IF it.lastError = NoError THEN NextLastError(outcome, n) ELSE it.lastError
    IN
    IF outcome = "throw"
    THEN [logged EXCEPT !.lastError = le]
    ELSE LET fr == IF outcome = "object" THEN ObjectOfCall(n) ELSE NoObject IN
         IF BreaksLoop(fr)
         THEN [logged EXCEPT !.finalResult = fr]
         ELSE [logged EXCEPT !.finalResult = fr, !.lastError = le]

\* the body of the loop after the awaited agent.generate ended with `outcome`:
\* try { finalResult = result.object; ... } catch (error) { lastError = error }
AfterAttempt(it, outcome) ==
    LET n == it.attempt
        logged == [it EXCEPT !.genLog = Append(@, outcome)]
    IN
    IF outcome = "throw"
    THEN [logged EXCEPT !.lastError = NextLastError(outcome, n)]
    ELSE LET fr == IF outcome = "object" THEN ObjectOfCall(n) ELSE NoObject IN
         IF BreaksLoop(fr)
         THEN [logged EXCEPT !.finalResult = fr]
         ELSE [logged EXCEPT !.finalResult = fr,
                             !.lastError = NextLastError(outcome, n)]

\* finalResult = result.object: the object received brings its detail list,
\* which { ...finalResult } copies into the plan
ReceivesObject(it, outcome, detail) ==
    IF outcome = "object" THEN [it EXCEPT !.detail = detail] ELSE it

\* one awaited agent.generate of item i ends with `outcome`
GenerateReturns(i, outcome, detail) ==
    /\ wf = "week"
    /\ wfpc = "foreach"
    /\ i \in DOMAIN items
    /\ items[i].pc = "calling"
    /\ LET n == items[i].attempt
           it == ReceivesObject(AfterAttempt(items[i], outcome), outcome, detail)
           broke == outcome # "throw" /\ BreaksLoop(it.finalResult)
       IN
       items' = [items EXCEPT ![i] =
                   IF broke
                   THEN AfterLoop(it, batch[i], accessToken)
                   ELSE IF LoopContinues(n)
                   THEN [it EXCEPT !.waits = Append(@, WaitMs(n)), !.pc = "backoff"]
                   ELSE AfterLoop(it, batch[i], accessToken)]
    /\ UNCHANGED <<wf, wfpc, accessToken, planner, enhancer, batch, chunkLo,
                   results, workoutMap, wfError, phaseVars>>
    /\ UNCHANGED resolver

\* the setTimeout of the backoff fires: attempt++ and the next call is issued
BackoffElapses(i) ==
    /\ wf = "week"
    /\ wfpc = "foreach"
    /\ i \in DOMAIN items
    /\ items[i].pc = "backoff"
    /\ items' = [items EXCEPT ![i] =
                   [@ EXCEPT !.attempt = @ + 1, !.calls = @ + 1, !.pc = "calling"]]
    /\ UNCHANGED <<wf, wfpc, accessToken, planner, enhancer, batch, chunkLo,
                   results, workoutMap, wfError, phaseVars>>
    /\ UNCHANGED resolver

\* the backend never answers the awaited agent.generate of item i: the call is
\* made with no timeout and no abort signal, so the promise stays pending and
\* execute() stays at this await
GenerationNeverAnswers(i) ==
    /\ wf = "week"
    /\ wfpc = "foreach"
    /\ i \in DOMAIN items
    /\ items[i].pc = "calling"
    /\ items' = [items EXCEPT ![i] = [@ EXCEPT !.pc = "unanswered"]]
    /\ UNCHANGED <<wf, wfpc, accessToken, planner, enhancer, batch, chunkLo,
                   results, workoutMap, wfError, phaseVars>>
    /\ UNCHANGED resolver

(***************************************************************************)
(* processDailyWorkout (week workflow): the storage call.                  *)
(***************************************************************************)
\* a request that was not answered 2xx sent once more
StoreResponds_Retries(i, resp) ==
    /\ wf = "week"
    /\ wfpc = "foreach"
    /\ i \in DOMAIN items
    /\ items[i].pc = "storing"
    /\ items' = [items EXCEPT ![i] =
          IF resp = "ok"
          THEN [@ EXCEPT !.plan = AfterResponse(@, TRUE), !.persist = "ok",
                         !.pc = "done"]
          ELSE IF items[i].reqs < 2
          THEN [@ EXCEPT !.reqs = @ + 1]
          ELSE [@ EXCEPT !.persist = "network", !.pc = "done"]]
    /\ UNCHANGED <<wf, wfpc, accessToken, planner, enhancer, batch, chunkLo,
                   results, workoutMap, wfError, phaseVars>>
    /\ UNCHANGED resolver

\* the awaited fetch of POST /training-plans/workouts ends
StoreResponds(i, resp) ==
    /\ wf = "week"
    /\ wfpc = "foreach"
    /\ i \in DOMAIN items
    /\ items[i].pc = "storing"
    /\ items' = [items EXCEPT ![i] =
          CASE resp = "ok" ->
                 [@ EXCEPT !.plan = AfterResponse(@, TRUE), !.persist = "ok",
                           !.pc = "done"]
            [] resp = "rejected" ->
                 [@ EXCEPT !.plan = AfterResponse(@, FALSE), !.persist = "rejected",
                           !.pc = "readingError"]
            [] OTHER -> \* catch (error): logged
                 [@ EXCEPT !.persist = "network", !.pc = "done"]]
    /\ UNCHANGED <<wf, wfpc, accessToken, planner, enhancer, batch, chunkLo,
                   results, workoutMap, wfError, phaseVars>>
    /\ UNCHANGED resolver

\* response.text() awaited outside the try: its failure fails the step
ErrorBodyRead_NoCatch(i, body) ==
    /\ wf = "week"
    /\ wfpc = "foreach"
    /\ i \in DOMAIN items
    /\ items[i].pc = "readingError"
    /\ items' = [items EXCEPT ![i] =
          IF body = "read"
          THEN [@ EXCEPT !.pc = "done"]
          ELSE [@ EXCEPT !.persist = "unreadable", !.pc = "failed",
                         !.error = Err("BodyUnreadable", batch[i].id, NoError, 0, "")]]
    /\ UNCHANGED <<wf, wfpc, accessToken, planner, enhancer, batch, chunkLo,
                   results, workoutMap, wfError, phaseVars>>
    /\ UNCHANGED resolver

\* the awaited response.text() of a non-2xx response ends
ErrorBodyRead(i, body) ==
    /\ wf = "week"
    /\ wfpc = "foreach"
    /\ i \in DOMAIN items
    /\ items[i].pc = "readingError"
    /\ items' = [items EXCEPT ![i] =
          IF body = "read"
          THEN [@ EXCEPT !.pc = "done"]
          ELSE \* catch (error): logged
               [@ EXCEPT !.persist = "unreadable", !.pc = "done"]]
    /\ UNCHANGED <<wf, wfpc, accessToken, planner, enhancer, batch, chunkLo,
                   results, workoutMap, wfError, phaseVars>>
    /\ UNCHANGED resolver

(***************************************************************************)
(* processDailyWorkout (older variant): one agent.stream, no retry, no     *)
(* storage call.                                                           *)
(***************************************************************************)
\* execute() up to its first await
StartLegacyExpander(it, id) ==
    IF ~getAgent("workoutExpert")
    THEN [it EXCEPT !.pc = "failed",
                    !.error = Err("AgentNotFound", id, NoError, 0, "")]
    ELSE [it EXCEPT !.pc = "streaming", !.attempt = 1, !.calls = 1]

\* the awaited stream ends: { ...object, id, date } is returned, or the step throws
LegacyStreamReturns(i, outcome, detail) ==
    /\ wf = "legacy"
    /\ wfpc = "foreach"
    /\ i \in DOMAIN items
    /\ items[i].pc = "streaming"
    /\ LET id == batch[i].id
           logged == ReceivesObject([items[i] EXCEPT !.genLog = Append(@, outcome)],
                                    outcome, detail)
       IN
       items' = [items EXCEPT ![i] =
          IF outcome = "throw"
          THEN [logged EXCEPT !.pc = "failed",
                              !.error = Err("Thrown", id, NoError, 0, "")]
          ELSE LET fr == IF outcome = "object" THEN ObjectOfCall(1) ELSE NoObject IN
               [logged EXCEPT !.finalResult = fr,
                              !.plan = [object |-> fr, workout_id |-> id,
                                        stored |-> FALSE],
                              !.pc = "done"]]
    /\ UNCHANGED <<wf, wfpc, accessToken, planner, enhancer, batch, chunkLo,
                   results, workoutMap, wfError, phaseVars>>
    /\ UNCHANGED resolver

(***************************************************************************)
(* .foreach(step, { concurrency }): the batch is run chunk by chunk, the   *)
(* items of a chunk concurrently; a failed item fails the run once its     *)
(* chunk has settled.                                                      *)
(***************************************************************************)
Concurrency == IF wf = "legacy" THEN LegacyConcurrency ELSE WeekConcurrency

\* every remaining item taken as one chunk
Chunk_WholeBatch(lo) == lo .. Len(batch)

\* the indexes of the chunk that starts at lo
Chunk(lo) == lo .. Min(lo + Concurrency - 1, Len(batch))

Settled(it) == it.pc \in {"done", "failed"}

\* the { id, workoutPlan } a finished invocation returned
OutputOf(i) == [id |-> batch[i].id, workoutPlan |-> items[i].plan]

\* the outputs of items lo..hi, the last one first
RECURSIVE Outputs_Reversed(_, _)
Outputs_Reversed(lo, hi) ==
    IF hi < lo THEN <<>> ELSE <<OutputOf(hi)>> \o Outputs_Reversed(lo, hi - 1)

\* the outputs of items lo..hi, in batch order
RECURSIVE Outputs(_, _)
Outputs(lo, hi) ==
    IF hi < lo THEN <<>> ELSE Append(Outputs(lo, hi - 1), OutputOf(hi))

\* the step's execute() is called for an item: the call is counted
Dispatched(it) == [it EXCEPT !.dispatches = @ + 1]

\* the items of the next chunk are started together
DispatchChunk ==
    /\ wf \in {"week", "legacy"}
    /\ wfpc = "foreach"
    /\ chunkLo <= Len(batch)
    /\ \A i \in Chunk(chunkLo) : items[i].pc = "pending"
    /\ items' = [i \in DOMAIN items |->
                   IF i \in Chunk(chunkLo)
                   THEN IF wf = "week"
                        THEN StartExpander(Dispatched(items[i]), batch[i].id)
                        ELSE StartLegacyExpander(Dispatched(items[i]), batch[i].id)
                   ELSE items[i]]
    /\ UNCHANGED <<wf, wfpc, accessToken, planner, enhancer, batch, chunkLo,
                   results, workoutMap, wfError, phaseVars>>
    /\ UNCHANGED resolver

\* the failed items skipped, the outputs of the others collected
ChunkSettles_IgnoresFailures ==
    /\ wf \in {"week", "legacy"}
    /\ wfpc = "foreach"
    /\ chunkLo <= Len(batch)
    /\ \A i \in Chunk(chunkLo) : Settled(items[i])
    /\ results' = results \o SelectSeq(Outputs(chunkLo, Min(chunkLo + Concurrency - 1, Len(batch))),
                                       LAMBDA o : o.workoutPlan # NoPlan)
    /\ chunkLo' = chunkLo + Concurrency
    /\ UNCHANGED <<wfpc, wfError>>
    /\ UNCHANGED <<wf, accessToken, planner, enhancer, batch, items, workoutMap, phaseVars>>
    /\ UNCHANGED resolver

\* every item of the chunk has ended: fail on the first failed one, else collect
ChunkSettles ==
    /\ wf \in {"week", "legacy"}
    /\ wfpc = "foreach"
    /\ chunkLo <= Len(batch)
    /\ \A i \in Chunk(chunkLo) : Settled(items[i])
    /\ LET bad == {i \in Chunk(chunkLo) : items[i].pc = "failed"} IN
       IF bad # {}
       THEN /\ wfpc' = "failed"
            /\ wfError' = items[CHOOSE i \in bad : \A j \in bad : i <= j].error
            /\ UNCHANGED <<chunkLo, results>>
       ELSE /\ results' = results \o Outputs(chunkLo, Min(chunkLo + Concurrency - 1, Len(batch)))
            /\ chunkLo' = chunkLo + Concurrency
            /\ UNCHANGED <<wfpc, wfError>>
    /\ UNCHANGED <<wf, accessToken, planner, enhancer, batch, items, workoutMap, phaseVars>>
    /\ UNCHANGED resolver

\* the next step started without waiting for the chunks
ForeachReturns_Early ==
    /\ wf \in {"week", "legacy"}
    /\ wfpc = "foreach"
    /\ wfpc' = "aggregate"
    /\ UNCHANGED <<wf, accessToken, planner, enhancer, batch, items, chunkLo,
                   results, workoutMap, wfError, phaseVars>>
    /\ UNCHANGED resolver

\* the loop over the chunks is over: the collected outputs go to the next step
ForeachReturns ==
    /\ wf \in {"week", "legacy"}
    /\ wfpc = "foreach"
    /\ chunkLo > Len(batch)
    /\ wfpc' = "aggregate"
    /\ UNCHANGED <<wf, accessToken, planner, enhancer, batch, items, chunkLo, results, workoutMap,
                   wfError, phaseVars>>
    /\ UNCHANGED resolver

(***************************************************************************)
(* aggregateWorkouts.                                                      *)
(***************************************************************************)
\* an id already in the map keeps its first plan
RECURSIVE AggregateLoop_KeepsFirst(_, _)
AggregateLoop_KeepsFirst(inputData, n) ==
    IF n = 0
    THEN <<>>
    ELSE LET prev == AggregateLoop_KeepsFirst(inputData, n - 1)
             item == inputData[n]
         IN [k \in (DOMAIN prev) \cup {item.id} |->
               IF k \in DOMAIN prev THEN prev[k] ELSE item.workoutPlan]

\* for (const item of inputData) result[item.id] = item.workoutPlan
RECURSIVE AggregateLoop(_, _)
AggregateLoop(inputData, n) ==
    IF n = 0
    THEN <<>>
    ELSE LET prev == AggregateLoop(inputData, n - 1)
             item == inputData[n]
         IN [k \in (DOMAIN prev) \cup {item.id} |->
               IF k = item.id THEN item.workoutPlan ELSE prev[k]]

Aggregate ==
    /\ wf \in {"week", "legacy"}
    /\ wfpc = "aggregate"
    /\ workoutMap' = AggregateLoop(results, Len(results))
    /\ wfpc' = "success"
    /\ UNCHANGED <<wf, accessToken, planner, enhancer, batch, items, chunkLo, results, wfError,
                   phaseVars>>
    /\ UNCHANGED resolver

(***************************************************************************)
(* generateDetailedWorkoutsWorkflow: enhanceWeeklyWorkouts, then the       *)
(* foreach, then aggregateWorkouts.                                        *)
(***************************************************************************)
\* a DailyWorkoutRequest, by its id and its date (a day number; day 0 is a
\* Sunday)
Request(id, date) == [id |-> id, date |-> date]

\* the batch of n requests with ids 1..n, and the one whose ids are all 1
\* (the ids come from the generation backend or the caller: nothing makes them differ)
DistinctBatch(n) == [i \in 1..n |-> Request(i, i)]
SameIdBatch(n) == [i \in 1..n |-> Request(1, i)]

\* the batches the environment produces under Spec
Batches == {DistinctBatch(n) : n \in 0..MaxBatch} \cup {SameIdBatch(2)}

\* the batches at the 7-item boundary
WideBatches == {DistinctBatch(MaxWorkouts), DistinctBatch(MaxWorkouts + 1)}

\* phase_id: z.string().optional(), when absent or empty
NoPhaseId == 0

\* the workflow's input
WeekInput(training_week, available_days_per_week, phase_id) ==
    [training_week |-> training_week,
     available_days_per_week |-> available_days_per_week,
     phase_id |-> phase_id]

\* a TrainingWeek: Monday (day 1) to Sunday (day 7), of phase 1
TrainingWeek == [week_id |-> 1, phase_id |-> 1, start_date |-> 1, end_date |-> 7]

NoEnhancer ==
    [calls |-> 0, finalResult |-> <<>>,
     input |-> WeekInput([week_id |-> 0, phase_id |-> 0, start_date |-> 0,
                          end_date |-> 0], 0, NoPhaseId)]

\* the input of a full run: seven days, the phase taken from the week
WeekInputs == {WeekInput(TrainingWeek, MaxDays, NoPhaseId)}

\* the inputs under SpecEnhancer: 3 to 7 days, with and without a phase_id
EnhancerInputs ==
    {WeekInput(TrainingWeek, k, p) : k \in MinDays..MaxDays, p \in {NoPhaseId, 2}}

\* the arrays the generation returns under SpecEnhancer: up to MaxArray
\* requests dated from the day before the week to the day after it
EnhancerArrays ==
    UNION {{[i \in 1..n |-> Request(i, d[i])] :
              d \in [1..n -> (TrainingWeek.start_date - 1)..(TrainingWeek.end_date + 1)]} :
           n \in 0..MaxArray}

\* the run starts: enhanceWeeklyWorkouts looks its agent up and awaits agent.stream
StartWeekRun(token, input) ==
    /\ wf = "none"
    /\ wf' = "week"
    /\ accessToken' = token
    /\ IF getAgent("workoutEnhancer")
       THEN /\ wfpc' = "enhance"
            /\ enhancer' = [enhancer EXCEPT !.calls = @ + 1, !.input = input]
            /\ UNCHANGED wfError
       ELSE /\ wfpc' = "failed"
            /\ wfError' = Err("AgentNotFound", 0, NoError, 0, "")
            /\ enhancer' = [enhancer EXCEPT !.input = input]
    /\ UNCHANGED <<foreachVars, phaseVars, planner>>
    /\ UNCHANGED resolver

\* every item tagged with the week's own phase_id
Tagged_WeekPhaseOnly(finalResult, input) ==
    [i \in DOMAIN finalResult |->
       [id |-> finalResult[i].id,
        date |-> finalResult[i].date,
        phase_id |-> input.training_week.phase_id,
        week_id |-> input.training_week.week_id]]

\* finalResult.map(workout => ({ ...workout, phase_id: phase_id ||
\* training_week.phase_id, week_id: training_week.week_id }))
Tagged(finalResult, input) ==
    [i \in DOMAIN finalResult |->
       [id |-> finalResult[i].id,
        date |-> finalResult[i].date,
        phase_id |-> IF input.phase_id # NoPhaseId
                     THEN input.phase_id
                     ELSE input.training_week.phase_id,
        week_id |-> input.training_week.week_id]]

\* if (!finalResult || !Array.isArray(finalResult)) throw
EnhancerRejects(isArray, finalResult) == ~isArray

\* a failed stream answered by calling agent.stream again
EnhancerReturns_Retries(outcome, b) ==
    /\ wf = "week"
    /\ wfpc = "enhance"
    /\ outcome # "object"
    /\ enhancer.calls < maxRetries
    /\ enhancer' = [enhancer EXCEPT !.calls = @ + 1]
    /\ UNCHANGED <<wf, wfpc, accessToken, planner, foreachVars, wfError, phaseVars>>
    /\ UNCHANGED resolver

\* the awaited stream.object ends: with an array of requests, with something
\* else, or by throwing; the array is returned with phase_id and week_id attached
EnhancerReturns(outcome, b) ==
    /\ wf = "week"
    /\ wfpc = "enhance"
    /\ IF outcome = "throw"
       THEN /\ wfpc' = "failed"
            /\ wfError' = Err("Thrown", 0, NoError, 0, "")
            /\ UNCHANGED <<foreachVars, enhancer>>
       ELSE IF EnhancerRejects(outcome = "object", b)
       THEN /\ wfpc' = "failed"
            /\ wfError' = Err("InvalidEnhancerOutput", 0, NoError, 0, "")
            /\ UNCHANGED <<foreachVars, enhancer>>
       ELSE /\ wfpc' = "foreach"
            /\ enhancer' = [enhancer EXCEPT !.finalResult = b]
            /\ batch' = Tagged(b, enhancer.input)
            /\ items' = [i \in DOMAIN b |-> PendingItem]
            /\ chunkLo' = 1
            /\ UNCHANGED <<results, workoutMap, wfError>>
    /\ UNCHANGED <<wf, accessToken, planner, phaseVars>>
    /\ UNCHANGED resolver

(***************************************************************************)
(* generateDetailedWorkoutsWorkflow, older variant: the caller's workouts  *)
(* are validated against the input schema and mapped to the foreach.       *)
(***************************************************************************)
\* workouts: z.array(DailyWorkoutRequestSchema).min(1).max(7)
ValidWorkouts(workouts) ==
    Len(workouts) >= MinWorkouts /\ Len(workouts) <= MaxWorkouts

StartLegacyRun(token, workouts) ==
    /\ wf = "none"
    /\ wf' = "legacy"
    /\ accessToken' = token
    /\ IF ValidWorkouts(workouts)
       THEN /\ wfpc' = "foreach"
            /\ batch' = workouts
            /\ items' = [i \in DOMAIN workouts |-> PendingItem]
            /\ chunkLo' = 1
            /\ UNCHANGED <<results, workoutMap, wfError>>
       ELSE /\ wfpc' = "failed"
            /\ wfError' = Err("InvalidInput", 0, NoError, 0, "")
            /\ UNCHANGED foreachVars
    /\ UNCHANGED <<phaseVars, planner, enhancer>>
    /\ UNCHANGED resolver

(***************************************************************************)
(* runningPhaseWorkflow: generateTrainingPhases, then saveToDatabase.      *)
(***************************************************************************)
\* a TrainingPhase: its phase_id and whether workout_focus has an element
PhaseRecs == [phase_id : 1..2, focus : BOOLEAN]

\* the phase lists a generation call can return
PhaseLists == UNION {[1..n -> PhaseRecs] : n \in 0..MaxPhases}

\* priority: z.enum(["A", "B", "C"])
Priorities == {"A", "B", "C"}

\* a RaceEvent: its priority and its date (a day number)
Race(priority, date) == [priority |-> priority, date |-> date]

\* aPriorityRaces[0] of an empty array
NoRace == Race("none", 0)

\* race_schedule: z.array(RaceEventSchema).min(1), every schedule up to the bounds
RaceSchedules ==
    UNION {[1..n -> [priority : Priorities, date : 1..MaxRaceDate]] : n \in 1..MaxRaces}

\* the schedules of a full run: without an A race, with one, with two
Schedules ==
    {<<Race("B", 1)>>, <<Race("A", 1)>>, <<Race("C", 1), Race("A", 2)>>,
     <<Race("A", 2), Race("A", 1)>>}

\* race_schedule.filter(r => r.priority === 'A')
APriorityRaces(race_schedule) == SelectSeq(race_schedule, LAMBDA r : r.priority = "A")

\* the check left out
LacksAPriority_Never(race_schedule) == FALSE

\* if (aPriorityRaces.length === 0) throw
LacksAPriority(race_schedule) == Len(APriorityRaces(race_schedule)) = 0

\* const primaryRace = aPriorityRaces[0]
PrimaryRace(race_schedule) ==
    IF APriorityRaces(race_schedule) = <<>>
    THEN NoRace
    ELSE APriorityRaces(race_schedule)[1]

\* raceDate.getTime(): the race's day starts at its first instant
RaceTime(date) == date * TicksPerDay

\* the quotient rounded down instead of up
WeeksToRace_Floor(raceTime, today) == (raceTime - today) \div (7 * TicksPerDay)

\* Math.ceil((raceDate.getTime() - today.getTime()) / (7 * 24 * 60 * 60 * 1000))
WeeksToRace(raceTime, today) == -((today - raceTime) \div (7 * TicksPerDay))

\* new Date() in a full run, and the instants it is drawn from under SpecPlanner
Todays == {0}
PlannerTodays == (-(MaxDaysBack * TicksPerDay))..(MaxRaceDate * TicksPerDay)

\* generateTrainingPhases before it has run
NoPlanner ==
    [races |-> <<>>, primary |-> NoRace, today |-> 0, weeksToRace |-> 0,
     calls |-> 0, object |-> <<>>, missing |-> <<>>]

\* the run starts: generateTrainingPhases looks its agent up, requires an
\* A-priority race, takes the primary race, computes weeksToRace and awaits
\* agent.generate
StartPhaseRun(token, race_schedule, today) ==
    /\ wf = "none"
    /\ wf' = "phase"
    /\ accessToken' = token
    /\ IF ~getAgent("phasePlanner")
       THEN /\ wfpc' = "failed"
            /\ wfError' = Err("AgentNotFound", 0, NoError, 0, "")
            /\ planner' = [planner EXCEPT !.races = race_schedule]
       ELSE IF LacksAPriority(race_schedule)
       THEN /\ wfpc' = "failed"
            /\ wfError' = Err("NoAPriorityRace", 0, NoError, 0, "")
            /\ planner' = [planner EXCEPT !.races = race_schedule]
       ELSE /\ wfpc' = "generate"
            /\ planner' = [planner EXCEPT
                   !.races = race_schedule,
                   !.primary = PrimaryRace(race_schedule),
                   !.today = today,
                   !.weeksToRace =
                       WeeksToRace(RaceTime(PrimaryRace(race_schedule).date), today),
                   !.calls = @ + 1]
            /\ UNCHANGED wfError
    /\ UNCHANGED <<foreachVars, phaseVars, enhancer>>
    /\ UNCHANGED resolver

\* no phase found to lack its focus
PhasesWithoutFocus_None(ps) == {}

\* object.phases.filter(p => !p.workout_focus || p.workout_focus.length === 0)
PhasesWithoutFocus(ps) == {i \in DOMAIN ps : ~ps[i].focus}

\* phasesWithoutFocus.map(p => p.phase_id).join(', ')
MissingPhases(ps) ==
    LET without == SelectSeq(ps, LAMBDA p : ~p.focus)
    IN [k \in DOMAIN without |-> without[k].phase_id]

\* the awaited agent.generate ends; the result is validated and returned
PhaseGenerateReturns(outcome, ps) ==
    /\ wf = "phase"
    /\ wfpc = "generate"
    /\ IF outcome = "throw"
       THEN /\ wfpc' = "failed"
            /\ wfError' = Err("Thrown", 0, NoError, 0, "")
            /\ UNCHANGED <<phases, savePc, planner>>
       ELSE IF outcome = "null"
       THEN /\ wfpc' = "failed"
            /\ wfError' = Err("InvalidStructuredOutput", 0, NoError, 0, "")
            /\ UNCHANGED <<phases, savePc, planner>>
       ELSE IF Len(ps) = 0
       THEN /\ wfpc' = "failed"
            /\ wfError' = Err("EmptyResult", 0, NoError, 0, "")
            /\ UNCHANGED <<phases, savePc, planner>>
       ELSE IF PhasesWithoutFocus(ps) # {}
       THEN /\ wfpc' = "failed"
            /\ wfError' = Err("MissingWorkoutFocus", 0, NoError, 0, "")
            /\ planner' = [planner EXCEPT !.object = ps,
                                          !.missing = MissingPhases(ps)]
            /\ UNCHANGED <<phases, savePc>>
       ELSE /\ wfpc' = "save"
            /\ savePc' = "start"
            /\ phases' = ps
            /\ planner' = [planner EXCEPT !.object = ps]
            /\ UNCHANGED wfError
    /\ UNCHANGED <<wf, accessToken, enhancer, foreachVars, saveIdx, saveResp,
                   phaseLog, phaseSaved, wfOutput>>
    /\ UNCHANGED resolver

\* the error logged and not rethrown
SaveThrows_Swallowed(e) ==
    /\ wfpc' = "success"
    /\ wfOutput' = phases
    /\ savePc' = "returned"
    /\ UNCHANGED wfError

\* the step throws `e`: the run fails and returns nothing
SaveThrows(e) ==
    /\ wfpc' = "failed"
    /\ wfError' = e
    /\ savePc' = "thrown"
    /\ UNCHANGED wfOutput

\* return { phases }: the run succeeds
SaveReturns ==
    /\ wfpc' = "success"
    /\ wfOutput' = phases
    /\ savePc' = "returned"
    /\ UNCHANGED wfError

\* the request for phases[k] sent twice
PostPhase_Twice(k) ==
    /\ saveIdx' = k
    /\ phaseLog' = phaseLog \o <<phases[k].phase_id, phases[k].phase_id>>
    /\ savePc' = "posting"
    /\ UNCHANGED <<wfpc, wfError, wfOutput>>

\* fetch(`${apiUrl}/training-plans/phases/bulk`, ...) for phases[k] is issued
PostPhase(k) ==
    /\ saveIdx' = k
    /\ phaseLog' = Append(phaseLog, phases[k].phase_id)
    /\ savePc' = "posting"
    /\ UNCHANGED <<wfpc, wfError, wfOutput>>

\* the token check left out
SaveSkips_Never(token) == FALSE

\* if (!accessToken) return { phases }
SaveSkips(token) == ~token

\* saveToDatabase.execute up to its first await
SaveBegins ==
    /\ wf = "phase"
    /\ wfpc = "save"
    /\ savePc = "start"
    /\ IF SaveSkips(accessToken)
       THEN SaveReturns /\ UNCHANGED <<saveIdx, phaseLog>>
       ELSE IF Len(phases) = 0
       THEN SaveThrows(Err("NoPhasesToSave", 0, NoError, 0, "")) /\ UNCHANGED <<saveIdx, phaseLog>>
       ELSE PostPhase(1)
    /\ UNCHANGED <<wf, accessToken, planner, enhancer, foreachVars, phases, phaseSaved, saveResp>>
    /\ UNCHANGED resolver

\* if (!response.ok): the error text is read and the step throws
PhaseRejected(responseOk) == ~responseOk

\* the awaited fetch ends: a 2xx response, a non-2xx one, or a rejected promise
SaveResponds(resp, status, body) ==
    /\ wf = "phase"
    /\ wfpc = "save"
    /\ savePc = "posting"
    /\ IF resp = "network"
       THEN /\ SaveThrows(Err("FetchFailed", phases[saveIdx].phase_id, NoError, 0, ""))
            /\ UNCHANGED <<phaseSaved, saveResp>>
       ELSE IF PhaseRejected(resp = "ok")
       THEN /\ savePc' = "readingError"
            /\ saveResp' = [status |-> status, body |-> body]
            /\ UNCHANGED <<wfpc, wfError, wfOutput, phaseSaved>>
       ELSE /\ savePc' = "readingJson"
            /\ phaseSaved' = Append(phaseSaved, phases[saveIdx].phase_id)
            /\ UNCHANGED <<wfpc, wfError, wfOutput, saveResp>>
    /\ UNCHANGED <<wf, accessToken, planner, enhancer, foreachVars, phases, saveIdx, phaseLog>>
    /\ UNCHANGED resolver

\* new Error(`API error saving phase ${phase.phase_id}: ${response.status} - ${errorText}`)
ApiError(phase_id, status, errorText) ==
    Err("ApiError", phase_id, NoError, status, errorText)

\* the awaited response.text() ends: the step throws, with the text when it was read
SaveErrorRead(b) ==
    /\ wf = "phase"
    /\ wfpc = "save"
    /\ savePc = "readingError"
    /\ IF b = "read"
       THEN SaveThrows(ApiError(phases[saveIdx].phase_id, saveResp.status, saveResp.body))
       ELSE SaveThrows(Err("BodyUnreadable", phases[saveIdx].phase_id, NoError, 0, ""))
    /\ UNCHANGED <<wf, accessToken, planner, enhancer, foreachVars, phases, saveIdx, phaseLog,
                   phaseSaved, saveResp>>
    /\ UNCHANGED resolver

\* the awaited response.json() ends: the loop goes on to the next phase, or returns
SaveJsonRead(b) ==
    /\ wf = "phase"
    /\ wfpc = "save"
    /\ savePc = "readingJson"
    /\ IF b = "unreadable"
       THEN SaveThrows(Err("BodyUnreadable", phases[saveIdx].phase_id, NoError, 0, ""))
            /\ UNCHANGED <<saveIdx, phaseLog>>
       ELSE IF saveIdx < Len(phases)
       THEN PostPhase(saveIdx + 1)
       ELSE SaveReturns /\ UNCHANGED <<saveIdx, phaseLog>>
    /\ UNCHANGED <<wf, accessToken, planner, enhancer, foreachVars, phases, phaseSaved, saveResp>>
    /\ UNCHANGED resolver

(***************************************************************************)
(* workoutExpert: the `tools` resolver and its toolsCache.                 *)
(***************************************************************************)
\* runtimeContext.get("accessToken"): undefined, or one of two tokens
NoToken == "undefined"
AccessTokens == {"tokenA", "tokenB"}

\* the {} returned without tools
NoTools == 0

\* the tools object that the client created k-th loads
ToolsOf(client) == client

\* const toolsCache = new Map<string, any>(), no client created, no resolution
NoResolver == [toolsCache |-> <<>>, clients |-> <<>>, calls |-> <<>>]

\* toolsCache.has(accessToken)
CacheHas(toolsCache, token) == token \in DOMAIN toolsCache

\* toolsCache.set(accessToken, tools)
CacheSet(toolsCache, token, tools) ==
    [k \in (DOMAIN toolsCache) \cup {token} |->
        IF k = token THEN tools ELSE toolsCache[k]]

\* a resolution that has returned `tools`
ReturnedTools(token, tools, cached) ==
    [token |-> token, pc |-> "returned", client |-> 0, tools |-> tools,
     cached |-> cached]

\* the resolver is called: without a token it returns {}, on a cache hit the
\* cached tools; otherwise createMcpClientWithToken builds a client and the
\* resolver stops at its first await
ResolveTools(token) ==
    /\ Len(resolver.calls) < MaxResolutions
    /\ resolver' =
          IF token = NoToken
          THEN [resolver EXCEPT !.calls = Append(@, ReturnedTools(token, NoTools, FALSE))]
          ELSE IF CacheHas(resolver.toolsCache, token)
          THEN [resolver EXCEPT
                  !.calls = Append(@, ReturnedTools(token, resolver.toolsCache[token], TRUE))]
          ELSE [resolver EXCEPT
                  !.clients = Append(@, token),
                  !.calls = Append(@, [token |-> token, pc |-> "created",
                                       client |-> Len(resolver.clients) + 1,
                                       tools |-> NoTools, cached |-> FALSE])]
    /\ UNCHANGED <<wf, wfpc, accessToken, planner, enhancer, foreachVars, wfError,
                   phaseVars>>

\* the await of the client ends: mcpClient.getTools() is called and awaited
GetToolsCalled(r) ==
    /\ r \in DOMAIN resolver.calls
    /\ resolver.calls[r].pc = "created"
    /\ resolver' = [resolver EXCEPT !.calls[r].pc = "loading"]
    /\ UNCHANGED <<wf, wfpc, accessToken, planner, enhancer, foreachVars, wfError,
                   phaseVars>>

\* the awaited getTools() ends: the tools are cached and returned, or the
\* catch returns {}
GetToolsReturns(r, outcome) ==
    /\ r \in DOMAIN resolver.calls
    /\ resolver.calls[r].pc = "loading"
    /\ LET call == resolver.calls[r]
           tools == ToolsOf(call.client)
       IN
       resolver' =
          IF outcome = "tools"
          THEN [resolver EXCEPT
                  !.toolsCache = CacheSet(@, call.token, tools),
                  !.calls[r] = [call EXCEPT !.pc = "returned", !.tools = tools]]
          ELSE [resolver EXCEPT !.calls[r] = [call EXCEPT !.pc = "returned"]]
    /\ UNCHANGED <<wf, wfpc, accessToken, planner, enhancer, foreachVars, wfError,
                   phaseVars>>

(***************************************************************************)
(* The specification.                                                      *)
(***************************************************************************)
Init ==
    /\ wf = "none"
    /\ wfpc = "idle"
    /\ accessToken = FALSE
    /\ batch = <<>>
    /\ items = <<>>
    /\ chunkLo = 1
    /\ results = <<>>
    /\ workoutMap = <<>>
    /\ wfError = NoFailure
    /\ phases = <<>>
    /\ saveIdx = 0
    /\ savePc = "idle"
    /\ saveResp = NoResponse
    /\ phaseLog = <<>>
    /\ phaseSaved = <<>>
    /\ wfOutput = <<>>
    /\ planner = NoPlanner
    /\ enhancer = NoEnhancer
    /\ resolver = NoResolver

\* the steps of the expander invocations of a run
ExpanderNext ==
    \/ \E i \in DOMAIN items, o \in GenOutcomes : GenerateReturns(i, o, LoopedDetail)
    \/ \E i \in DOMAIN items : BackoffElapses(i)
    \/ \E i \in DOMAIN items, r \in FetchOutcomes : StoreResponds(i, r)
    \/ \E i \in DOMAIN items, b \in BodyOutcomes : ErrorBodyRead(i, b)
    \/ \E i \in DOMAIN items, o \in GenOutcomes : LegacyStreamReturns(i, o, LoopedDetail)

\* the steps of the fan-out stage
ForeachNext ==
    \/ DispatchChunk
    \/ ChunkSettles
    \/ ForeachReturns
    \/ Aggregate

\* the steps of the phase workflow
PhaseNext ==
    \/ \E t \in BOOLEAN, rs \in Schedules, now \in Todays : StartPhaseRun(t, rs, now)
    \/ /\ wfpc = "generate"
       /\ \E o \in GenOutcomes, ps \in PhaseLists : PhaseGenerateReturns(o, ps)
    \/ SaveBegins
    \/ \E r \in FetchOutcomes, s \in RejectStatuses, b \in ErrorBodies : SaveResponds(r, s, b)
    \/ \E b \in BodyOutcomes : SaveErrorRead(b)
    \/ \E b \in BodyOutcomes : SaveJsonRead(b)

Next ==
    \/ \E t \in BOOLEAN, in \in WeekInputs : StartWeekRun(t, in)
    \/ \E o \in GenOutcomes, b \in Batches : EnhancerReturns(o, b)
    \/ \E t \in BOOLEAN, w \in Batches : StartLegacyRun(t, w)
    \/ ExpanderNext
    \/ ForeachNext
    \/ PhaseNext

Spec == Init /\ [][Next]_vars

(***************************************************************************)
(* The same program with batches at the 7-item boundary.  To keep the      *)
(* state space finite enough, only the first item's calls can fail here.   *)
(***************************************************************************)
WideGenOutcomes(i) == IF i = 1 THEN GenOutcomes ELSE {"object"}
WideFetchOutcomes(i) == IF i = 1 THEN FetchOutcomes ELSE {"ok"}

ExpanderNextWide ==
    \/ \E i \in DOMAIN items : \E o \in WideGenOutcomes(i) :
          GenerateReturns(i, o, LoopedDetail)
    \/ \E i \in DOMAIN items : BackoffElapses(i)
    \/ \E i \in DOMAIN items : \E r \in WideFetchOutcomes(i) : StoreResponds(i, r)
    \/ \E i \in DOMAIN items, b \in BodyOutcomes : ErrorBodyRead(i, b)
    \/ \E i \in DOMAIN items : \E o \in WideGenOutcomes(i) :
          LegacyStreamReturns(i, o, LoopedDetail)

NextWide ==
    \/ \E t \in BOOLEAN, in \in WeekInputs : StartWeekRun(t, in)
    \/ \E o \in GenOutcomes, b \in WideBatches : EnhancerReturns(o, b)
    \/ \E t \in BOOLEAN, w \in WideBatches : StartLegacyRun(t, w)
    \/ ExpanderNextWide
    \/ ForeachNext
    \/ PhaseNext

SpecWide == Init /\ [][NextWide]_vars

(***************************************************************************)
(* The phase planner's choice of the primary race, over every schedule up  *)
(* to the bounds: the run up to its generation call.                       *)
(***************************************************************************)
NextPlanner ==
    /\ wf = "none"
    /\ \E t \in BOOLEAN, rs \in RaceSchedules, now \in PlannerTodays :
          StartPhaseRun(t, rs, now)

SpecPlanner == Init /\ [][NextPlanner]_vars

(***************************************************************************)
(* The week enhancer over every input and every returned array up to the   *)
(* bounds: the run up to the start of the fan-out.                         *)
(***************************************************************************)
NextEnhancer ==
    \/ \E t \in BOOLEAN, in \in EnhancerInputs : StartWeekRun(t, in)
    \/ /\ wfpc = "enhance"
       /\ \E o \in GenOutcomes, b \in EnhancerArrays : EnhancerReturns(o, b)

SpecEnhancer == Init /\ [][NextEnhancer]_vars

(***************************************************************************)
(* The expansion of a single request, over every detail list the           *)
(* generation can return up to the bound.                                  *)
(***************************************************************************)
NextDetail ==
    \/ \E t \in BOOLEAN, in \in WeekInputs : StartWeekRun(t, in)
    \/ \E o \in GenOutcomes : EnhancerReturns(o, DistinctBatch(1))
    \/ \E t \in BOOLEAN : StartLegacyRun(t, DistinctBatch(1))
    \/ \E i \in DOMAIN items, o \in GenOutcomes, d \in Details : GenerateReturns(i, o, d)
    \/ \E i \in DOMAIN items : BackoffElapses(i)
    \/ \E i \in DOMAIN items, r \in FetchOutcomes : StoreResponds(i, r)
    \/ \E i \in DOMAIN items, b \in BodyOutcomes : ErrorBodyRead(i, b)
    \/ \E i \in DOMAIN items, o \in GenOutcomes, d \in Details :
          LegacyStreamReturns(i, o, d)
    \/ ForeachNext

SpecDetail == Init /\ [][NextDetail]_vars

(***************************************************************************)
(* The runs in which the generation backend may leave a call of the daily  *)
(* workout expander unanswered.                                            *)
(***************************************************************************)
NextUnanswered ==
    \/ Next
    \/ \E i \in DOMAIN items : GenerationNeverAnswers(i)

SpecUnanswered == Init /\ [][NextUnanswered]_vars

(***************************************************************************)
(* The resolutions of the workout expert's tools: each agent.generate of a *)
(* fan-out resolves them, so several can be under way at once.             *)
(***************************************************************************)
LoadOutcomes == {"tools", "throw"}

NextResolver ==
    \/ \E token \in AccessTokens \cup {NoToken} : ResolveTools(token)
    \/ \E r \in DOMAIN resolver.calls : GetToolsCalled(r)
    \/ \E r \in DOMAIN resolver.calls, o \in LoadOutcomes : GetToolsReturns(r, o)

SpecResolver == Init /\ [][NextResolver]_vars

(***************************************************************************)
(* Properties.                                                             *)
(***************************************************************************)
\* the invocations of the week workflow's expander
Invocations == IF wf = "week" THEN DOMAIN items ELSE {}

\* the calls of invocation i that have ended, and those that ended without an object
Failed(i, k) == items[i].genLog[k] \in {"null", "throw"}
Answered(i) == DOMAIN items[i].genLog

\* invocation i has returned { id, workoutPlan }
Returned(i) == items[i].pc = "done"

\* C1: an invocation of the daily workout expander calls the generation client
\* at least once and at most 3 times, and a call after the first is made only
\* when every earlier call of the invocation returned no object or threw.
C1_CallsBounded ==
    \A i \in Invocations :
        /\ items[i].calls <= 3
        /\ items[i].pc # "pending" => items[i].calls >= 1
        /\ Len(items[i].genLog) <= items[i].calls
        /\ \A k \in 1..(items[i].calls - 1) : k \in Answered(i) /\ Failed(i, k)

\* an invocation that made its third call after two failures and returned
C1_Witness ==
    \E i \in Invocations :
        /\ items[i].calls = 3
        /\ Returned(i)
        /\ Failed(i, 1) /\ Failed(i, 2)

\* C2: when the first call that returns an object is the k-th (k in 1..3), the
\* invocation makes exactly k calls, does not fail, and the plan it returns
\* carries the object of that k-th call (fails twice, then succeeds: 3 calls).
C2_FirstSuccessReturned ==
    \A i \in Invocations : \A k \in Answered(i) :
        (items[i].genLog[k] = "object" /\ \A j \in 1..(k - 1) : Failed(i, j))
        => /\ k \in 1..3
           /\ items[i].calls = k
           /\ Len(items[i].genLog) = k
           /\ items[i].pc \in {"storing", "readingError", "done"}
           /\ items[i].plan.object = ObjectOfCall(k)
           /\ items[i].plan.workout_id = batch[i].id

\* the client failed twice and then succeeded, and the invocation returned
C2_Witness ==
    \E i \in Invocations :
        /\ Len(items[i].genLog) = 3
        /\ items[i].genLog[3] = "object"
        /\ items[i].genLog[1] = "null" /\ items[i].genLog[2] = "throw"
        /\ Returned(i)
        /\ items[i].calls = 3

\* the error of the call that failed k-th
FailureOf(i, k) ==
    [kind |-> IF items[i].genLog[k] = "null" THEN "NoStructuredOutput" ELSE "Thrown",
     at |-> k]

\* C3: the daily workout expander step fails only after 3 generation attempts
\* have failed, never after fewer, and its error carries the message of the
\* last failure, that of the third attempt.
C3_FailsAfterThirdAttempt ==
    \A i \in Invocations :
        items[i].pc = "failed"
        => /\ items[i].calls = 3
           /\ Len(items[i].genLog) = 3
           /\ \A k \in 1..3 : Failed(i, k)
           /\ items[i].error.kind = "GenerationFailed"
           /\ items[i].error.id = batch[i].id
           /\ items[i].error.cause = FailureOf(i, 3)

\* an invocation failed, and its first and third failures differ
C3_Witness ==
    \E i \in Invocations :
        /\ items[i].pc = "failed"
        /\ items[i].genLog = <<"throw", "throw", "null">>

\* C4 (as claimed): the wait that follows failed attempt n is 2^(n-1) seconds,
\* for n = 1, 2 and 3: 1s, 2s and 4s.
C4_BackoffOneTwoFour ==
    \A i \in Invocations : \A n \in Answered(i) :
        Failed(i, n)
        => /\ Len(items[i].waits) >= n
           /\ items[i].waits[n] = (2 ^ (n - 1)) * 1000

\* C5: once generation has succeeded, no outcome of the storage call (a non-2xx
\* response, a rejected fetch, an unreadable error body, no access token) makes
\* the step fail: it returns { id, workoutPlan }, and the plan keeps
\* stored = false in each of these cases.
C5_PersistenceNeverFails ==
    \A i \in Invocations :
        /\ items[i].finalResult # NoObject => items[i].pc # "failed"
        /\ items[i].persist \in {"network", "unreadable", "skipped"} => Returned(i)
        /\ items[i].persist = "rejected" => items[i].pc \in {"readingError", "done"}
        /\ items[i].persist \in {"rejected", "network", "unreadable", "skipped"}
           => /\ items[i].plan.stored = FALSE
              /\ items[i].plan.object = items[i].finalResult
              /\ items[i].plan.workout_id = batch[i].id

\* two invocations returned, one after an unreadable error body, one after a
\* rejected fetch
C5_Witness ==
    \E i, j \in Invocations :
        /\ Returned(i) /\ items[i].persist = "unreadable"
        /\ Returned(j) /\ items[j].persist = "network"

\* C6: in every plan the daily workout expander returns, stored is true exactly
\* when an access token was present and the POST of that workout got a 2xx
\* response.
C6_StoredIffSaved ==
    \A i \in Invocations :
        Returned(i)
        => (items[i].plan.stored
            <=> (accessToken /\ items[i].reqs = 1 /\ items[i].persist = "ok"))

\* one returned plan was stored, another one, with the same token, was rejected
C6_Witness ==
    \E i, j \in Invocations :
        /\ Returned(i) /\ items[i].plan.stored
        /\ Returned(j) /\ ~items[j].plan.stored /\ items[j].persist = "rejected"

\* C7: without an access token neither save path sends a request to the storage
\* API or reports an error: the phase save step returns the phases it was
\* given, the daily workout expander returns its plan with stored = false.
C7_NoTokenSkipsStorage ==
    (wf # "none" /\ ~accessToken)
    => /\ phaseLog = <<>>
       /\ phaseSaved = <<>>
       /\ \A i \in DOMAIN items : items[i].reqs = 0
       /\ (wf = "phase" /\ savePc \notin {"idle", "start"})
          => (wfpc = "success" /\ wfOutput = phases /\ wfError = NoFailure)
       /\ \A i \in Invocations :
            items[i].finalResult # NoObject
            => /\ Returned(i)
               /\ items[i].persist = "skipped"
               /\ items[i].plan.stored = FALSE
               /\ items[i].error = NoFailure

\* without a token, an expansion returned its plan
C7_Witness ==
    /\ ~accessToken
    /\ \E i \in Invocations : Returned(i) /\ items[i].persist = "skipped"

\* the phase_ids of phases 1..n
RECURSIVE PhaseIds(_, _)
PhaseIds(ps, n) == IF n = 0 THEN <<>> ELSE Append(PhaseIds(ps, n - 1), ps[n].phase_id)

\* C8: a non-2xx response, or a failed request, while saving any phase is fatal
\* for the phase-planning run: the run fails, with an error that carries the
\* status and the body of the response, and returns no phases; the same
\* response to a workout save is swallowed by the daily workout expander.
C8_PhaseSaveFatalWorkoutSaveNot ==
    /\ wf = "phase"
       => /\ wfpc # "success" => wfOutput = <<>>
          /\ saveResp # NoResponse => savePc \in {"readingError", "thrown"}
          /\ savePc = "thrown"
             => /\ wfpc = "failed"
                /\ wfError.kind \in {"ApiError", "FetchFailed", "BodyUnreadable"}
                /\ wfError.id = phases[saveIdx].phase_id
          /\ (savePc = "thrown" /\ saveResp # NoResponse /\ wfError.kind # "BodyUnreadable")
             => wfError = ApiError(phases[saveIdx].phase_id, saveResp.status, saveResp.body)
          /\ (wfpc = "success" /\ accessToken) => phaseSaved = PhaseIds(phases, Len(phases))
    /\ \A i \in Invocations :
          items[i].persist \in {"rejected", "network", "unreadable"}
          => (items[i].pc # "failed" /\ items[i].error = NoFailure)

\* the second phase of a run was answered 500 and the run failed with that
C8_Witness ==
    /\ wf = "phase"
    /\ wfpc = "failed"
    /\ saveIdx = 2
    /\ wfError.kind = "ApiError"
    /\ wfError.status = 500
    /\ Len(phaseSaved) = 1

\* C9: when an expansion of a fan-out batch exhausts its retries the whole
\* generate-detailed-workouts run fails and the caller gets no workout map, not
\* even for the expansions that succeeded; a map is returned only when every
\* expansion of the batch succeeded.
C9_AllOrNothing ==
    wf = "week"
    => /\ (\E i \in DOMAIN items : items[i].pc = "failed")
          => /\ wfpc \in {"foreach", "failed"}
             /\ workoutMap = <<>>
             /\ \A i \in DOMAIN items : items[i].pc = "failed" => chunkLo <= i
       /\ wfpc # "success" => workoutMap = <<>>
       /\ wfpc \in {"aggregate", "success"}
          => /\ \A i \in DOMAIN items : Returned(i)
             /\ Len(results) = Len(batch)
       /\ wfpc = "success" => DOMAIN workoutMap = {batch[i].id : i \in DOMAIN batch}

\* a run failed though one of its expansions had succeeded and stored its plan
C9_Witness ==
    /\ wf = "week"
    /\ wfpc = "failed"
    /\ wfError.kind = "GenerationFailed"
    /\ \E i, j \in DOMAIN items :
          /\ items[i].pc = "failed"
          /\ Returned(j) /\ items[j].plan.stored

\* C10 (as claimed): a batch of 8 or more DailyWorkoutRequest items is rejected
\* before any daily workout expander invocation is dispatched, whatever
\* produced the batch; a batch of 1 to 7 is accepted.
C10_WideBatchNeverDispatched ==
    Len(batch) > 7 => \A i \in DOMAIN items : items[i].pc = "pending"

\* the expander invocations that have been started and have not ended
InFlight == {i \in DOMAIN items : ~(items[i].pc = "pending" \/ Settled(items[i]))}

\* the fan-out is over: it failed, or its outputs went on to the aggregate
FanOutOver == wf \in {"week", "legacy"} /\ wfpc \in {"failed", "aggregate", "success"}

\* C11 (as claimed): at every moment of a fan-out at most `ceiling` expander
\* invocations are in flight (7 in the week workflow, 3 in the older variant),
\* and every item of the batch is dispatched exactly once.
C11_EveryItemDispatchedOnce ==
    /\ Cardinality(InFlight) <= Concurrency
    /\ \A i \in DOMAIN items : items[i].dispatches <= 1
    /\ FanOutOver => \A i \in DOMAIN items : items[i].dispatches = 1

\* C11 (amended): at every moment at most `ceiling` invocations are in flight
\* and no item is dispatched twice; every item is dispatched exactly once in a
\* fan-out that ran to its end, and in one that failed the items of the chunks
\* after the failing chunk are never dispatched.
C11_CeilingAndAtMostOnce ==
    /\ Cardinality(InFlight) <= Concurrency
    /\ \A i \in DOMAIN items :
          /\ items[i].dispatches <= 1
          /\ items[i].dispatches = 1 <=> items[i].pc # "pending"
    /\ (wf \in {"week", "legacy"} /\ wfpc \in {"aggregate", "success"})
       => \A i \in DOMAIN items : items[i].dispatches = 1
    /\ (FanOutOver /\ wfpc = "failed")
       => \A i \in DOMAIN items :
             items[i].dispatches = 0 <=> i >= chunkLo + Concurrency

\* the older variant with 7 items: the seventh runs alone after two full
\* chunks of 3 have returned
C11_Witness ==
    /\ wf = "legacy"
    /\ Len(batch) = 7
    /\ InFlight = {7}
    /\ \A i \in 1..6 : Returned(i) /\ items[i].dispatches = 1

\* the last request of the batch that carries id k
LastWithId(k) ==
    CHOOSE i \in DOMAIN batch :
        batch[i].id = k /\ \A j \in DOMAIN batch : batch[j].id = k => j <= i

\* C12: the aggregate result is a function of the batch and of what each
\* expansion returned, whatever the order in which the expansions completed:
\* its keys are the workout ids of the batch, and each key maps to the plan
\* produced for the request with that id (the last such request of the batch).
C12_AggregateOrderIndependent ==
    (wf = "week" /\ wfpc = "success")
    => /\ results = [i \in DOMAIN batch |-> OutputOf(i)]
       /\ DOMAIN workoutMap = {batch[i].id : i \in DOMAIN batch}
       /\ \A k \in DOMAIN workoutMap :
             /\ workoutMap[k] = items[LastWithId(k)].plan
             /\ workoutMap[k].workout_id = k

\* a map of two plans whose second expansion needed one call and whose first
\* needed three: the second completes first in some runs, the first in others
C12_Witness ==
    /\ wf = "week"
    /\ wfpc = "success"
    /\ Len(batch) = 2
    /\ batch[1].id # batch[2].id
    /\ items[1].calls = 3 /\ items[2].calls = 1
    /\ workoutMap[batch[1].id].object = ObjectOfCall(3)
    /\ workoutMap[batch[2].id].object = ObjectOfCall(1)

\* C13: a planning run whose race schedule holds no A-priority race fails in
\* the phase planner step with the precondition error, and in that run no
\* generation call and no persistence call is made.
C13_NoAPriorityFailsBeforeAnyCall ==
    wf = "phase"
    => /\ (\A k \in DOMAIN planner.races : planner.races[k].priority # "A")
          => /\ wfpc = "failed"
             /\ wfError.kind = "NoAPriorityRace"
             /\ planner.calls = 0
             /\ phaseLog = <<>> /\ phaseSaved = <<>>
             /\ savePc = "idle"
             /\ wfOutput = <<>>
       /\ wfError.kind = "NoAPriorityRace"
          => \A k \in DOMAIN planner.races : planner.races[k].priority # "A"

\* a run with a schedule of B and C races only has failed
C13_Witness ==
    /\ wf = "phase"
    /\ planner.races # <<>>
    /\ \A k \in DOMAIN planner.races : planner.races[k].priority \in {"B", "C"}
    /\ wfpc = "failed"
    /\ wfError.kind = "NoAPriorityRace"

\* C14 (as claimed): for every race schedule with one or more A-priority
\* races, in any list order, the phase planner takes as primary goal the
\* A-priority race with the earliest date.
C14_PrimaryIsEarliestA ==
    (wf = "phase" /\ wfpc = "generate")
    => /\ planner.primary.priority = "A"
       /\ \E k \in DOMAIN planner.races : planner.races[k] = planner.primary
       /\ \A k \in DOMAIN planner.races :
             planner.races[k].priority = "A"
             => planner.primary.date <= planner.races[k].date

\* the phases of the generated list that have no focus label
Offending == {k \in DOMAIN planner.object : ~planner.object[k].focus}

PlannerFailures ==
    {"Thrown", "InvalidStructuredOutput", "EmptyResult", "MissingWorkoutFocus"}
EnhancerFailures == {"Thrown", "InvalidEnhancerOutput"}

\* C16: the phase planner and the week enhancer each call the generation
\* client at most once per run; a failure of that call or of its validation
\* ends the step with an error and no second call.  Only the daily workout
\* expander calls the client again after a failure.
C16_PlannerAndEnhancerCallOnce ==
    /\ planner.calls <= 1
    /\ enhancer.calls <= 1
    /\ wf = "phase"
       => /\ enhancer.calls = 0
          /\ wfpc # "failed" => planner.calls = 1
          /\ wfError.kind \in PlannerFailures
             => wfpc = "failed" /\ planner.calls = 1 /\ phases = <<>>
    /\ wf = "week"
       => /\ planner.calls = 0
          /\ enhancer.calls = 1
          /\ wfError.kind \in EnhancerFailures
             => wfpc = "failed" /\ items = <<>>
    /\ wf = "legacy" => planner.calls = 0 /\ enhancer.calls = 0

\* a week run whose enhancer call threw: the run failed after that one call
C16_Witness ==
    /\ wf = "week"
    /\ wfpc = "failed"
    /\ wfError.kind = "Thrown"
    /\ enhancer.calls = 1
    /\ items = <<>>

\* C17 (as claimed): with available_days_per_week = k in 3..7, a successful
\* week enhancer step returns exactly k items, each dated within the week's
\* [start_date, end_date], whatever array the generation client returned.
C17_ExactlyKWithinWeek ==
    (wf = "week" /\ wfpc = "foreach")
    => /\ Len(batch) = enhancer.input.available_days_per_week
       /\ \A i \in DOMAIN batch :
             /\ enhancer.input.training_week.start_date <= batch[i].date
             /\ batch[i].date <= enhancer.input.training_week.end_date

\* C18 (as claimed): when the generation client gives the week enhancer a
\* non-array or an empty array, the step fails hard: it returns no list, no
\* expander invocation is dispatched and no workout map is produced, not even
\* an empty one.
C18_EmptyArrayFailsHard ==
    wf = "week"
    => /\ wfError.kind = "InvalidEnhancerOutput"
          => wfpc = "failed" /\ items = <<>> /\ workoutMap = <<>>
       /\ wfpc \in {"foreach", "aggregate", "success"} => Len(batch) >= 1

\* the expansions that posted their plan to the storage API
Posted == {i \in Invocations : items[i].reqs >= 1}

\* C19: for each weekday d in 0..6 of the generation side (0 = Sunday), the
\* day_of_week sent to storage is (d + 6) mod 7 (0 = Monday), and the
\* conversion is a bijection on 0..6.
C19_DayOfWeekShift ==
    /\ \A i \in Posted :
          /\ GetDay(batch[i].date) \in 0..6
          /\ items[i].day_of_week = (GetDay(batch[i].date) + 6) % 7
          /\ items[i].day_of_week \in 0..6
    /\ \A i, j \in Posted :
          items[i].day_of_week = items[j].day_of_week
          => GetDay(batch[i].date) = GetDay(batch[j].date)

\* seven requests, one per weekday, all posted: the seven storage-side days
C19_Witness ==
    /\ wf = "week"
    /\ {GetDay(batch[i].date) : i \in Posted} = 0..6
    /\ {items[i].day_of_week : i \in Posted} = 0..6
    /\ \E i \in Posted : GetDay(batch[i].date) = 0 /\ items[i].day_of_week = 6

\* the scan of the first n items of a detail list: a loop_start pushes its id,
\* a loop_end pops the id on top when it is its own and fails otherwise
RECURSIVE ScanLoops(_, _)
ScanLoops(detail, n) ==
    IF n = 0
    THEN [ok |-> TRUE, stack |-> <<>>]
    ELSE LET prev == ScanLoops(detail, n - 1)
             item == detail[n]
             top == Len(prev.stack)
         IN IF ~prev.ok \/ item.type = "segment"
            THEN prev
            ELSE IF item.type = "loop_start"
            THEN [prev EXCEPT !.stack = Append(@, item.id)]
            ELSE IF top > 0 /\ prev.stack[top] = item.id
            THEN [prev EXCEPT !.stack = SubSeq(@, 1, top - 1)]
            ELSE [prev EXCEPT !.ok = FALSE]

\* the scan never underflows or meets a foreign id, and ends with no loop open
WellBracketed(detail) ==
    LET end == ScanLoops(detail, Len(detail)) IN end.ok /\ end.stack = <<>>

\* C20 (as claimed): every WorkoutPlan the daily workout expander returns has
\* a well-bracketed detail list: a stack scan of its loop_start / loop_end ids
\* never underflows and ends empty.
C20_DetailWellBracketed ==
    \A i \in DOMAIN items :
        (Returned(i) /\ items[i].plan.object # NoObject)
        => WellBracketed(items[i].detail)

\* a step of the run that the state of invocation i allows: one of its own
\* steps, or the settling of its chunk
ExpanderProceeds(i) ==
    \/ \E o \in GenOutcomes : GenerateReturns(i, o, LoopedDetail)
    \/ BackoffElapses(i)
    \/ \E r \in FetchOutcomes : StoreResponds(i, r)
    \/ \E b \in BodyOutcomes : ErrorBodyRead(i, b)
    \/ ChunkSettles
    \/ ForeachReturns
    \/ Aggregate

\* C21 (as claimed): a generation call of a daily expansion that is not
\* answered within its time budget is treated as a failed attempt and counted
\* against the 3 attempts, so an invocation whose call the backend never
\* answers still goes on: it is never left with no step to take before its
\* run has ended in success or failure.
C21_UnansweredCallEnds ==
    \A i \in Invocations :
        (items[i].pc = "unanswered" /\ wfpc \notin {"success", "failed"})
        => ENABLED ExpanderProceeds(i)

\* C23: within one generate-detailed-workouts run no expander invocation
\* starts before the week enhancer has returned its complete list, the
\* aggregate step starts only after every expansion of the batch has finished,
\* and the map holds no entry for an expansion that has not completed.
C23_StagesInOrder ==
    wf = "week"
    => /\ wfpc = "enhance" => batch = <<>> /\ items = <<>>
       /\ (\E i \in DOMAIN items : items[i].pc # "pending")
          => /\ wfpc \in {"foreach", "aggregate", "success", "failed"}
             /\ enhancer.calls = 1
             /\ DOMAIN items = DOMAIN batch
       /\ wfpc \in {"aggregate", "success"}
          => /\ \A i \in DOMAIN batch : Returned(i)
             /\ InFlight = {}
       /\ wfpc # "success" => workoutMap = <<>>
       /\ \A k \in DOMAIN workoutMap :
             \E i \in DOMAIN batch :
                 Returned(i) /\ batch[i].id = k /\ workoutMap[k] = items[i].plan

\* the aggregate step is about to run on a batch of two finished expansions
C23_Witness ==
    /\ wf = "week"
    /\ wfpc = "aggregate"
    /\ Len(batch) = 2
    /\ \A i \in DOMAIN batch : Returned(i)
    /\ Len(results) = 2

\* C24: every item the week enhancer returns carries the week_id of the input
\* week and, as phase_id, the explicit phase_id input when one is given and
\* non-empty, otherwise the week's own phase_id; the other fields of each
\* generated item are passed through unchanged, and the count and the order of
\* the items are those of the generated array.
C24_TaggedAndPassedThrough ==
    (wf = "week" /\ wfpc = "foreach")
    => /\ Len(batch) = Len(enhancer.finalResult)
       /\ \A i \in DOMAIN batch :
             /\ batch[i].id = enhancer.finalResult[i].id
             /\ batch[i].date = enhancer.finalResult[i].date
             /\ batch[i].week_id = enhancer.input.training_week.week_id
             /\ enhancer.input.phase_id # NoPhaseId
                => batch[i].phase_id = enhancer.input.phase_id
             /\ enhancer.input.phase_id = NoPhaseId
                => batch[i].phase_id = enhancer.input.training_week.phase_id

\* a run given an explicit phase_id other than the week's, whose enhancer
\* returned three requests
C24_Witness ==
    /\ wf = "week"
    /\ wfpc = "foreach"
    /\ enhancer.input.phase_id # NoPhaseId
    /\ enhancer.input.phase_id # enhancer.input.training_week.phase_id
    /\ Len(batch) = 3
    /\ \A i \in DOMAIN batch : batch[i].phase_id = enhancer.input.phase_id

\* the time from today to the primary race, in instants, and the instants of a week
TimeToRace == RaceTime(planner.primary.date) - planner.today
WeekTicks == 7 * TicksPerDay

\* C25: the weeks-to-race value given to the generation step is the ceiling of
\* the time from today to the primary race over 7 days: for a race d days
\* ahead with 7(w-1) < d <= 7w it is w, it is at least 1 whenever the race
\* lies in the future, and the step computes it for every race date, past
\* ones included.
C25_WeeksToRaceIsCeiling ==
    (wf = "phase" /\ planner.calls = 1)
    => /\ WeekTicks * (planner.weeksToRace - 1) < TimeToRace
       /\ TimeToRace <= WeekTicks * planner.weeksToRace
       /\ TimeToRace > 0 => planner.weeksToRace >= 1
       /\ TimeToRace <= 0 => planner.weeksToRace <= 0

\* a race one instant more than a week ahead: two weeks to race
C25_Witness ==
    /\ wf = "phase"
    /\ wfpc = "generate"
    /\ TimeToRace = WeekTicks + 1
    /\ planner.weeksToRace = 2

\* C26: the phase save step POSTs the phases one at a time in list order, each
\* request awaited before the next; when the save of phase i fails, the phases
\* before i have been stored and stay stored, the phases after i are never
\* sent, and the step makes at most one request per phase.
C26_PhasesSavedInOrder ==
    wf = "phase"
    => /\ saveIdx <= Len(phases)
       /\ phaseLog = PhaseIds(phases, saveIdx)
       /\ saveIdx >= 1
          => phaseSaved \in {PhaseIds(phases, saveIdx - 1), PhaseIds(phases, saveIdx)}
       /\ savePc \in {"posting", "readingError"}
          => phaseSaved = PhaseIds(phases, saveIdx - 1)
       /\ (savePc = "thrown" /\ saveIdx >= 1)
          => /\ wfpc = "failed"
             /\ Len(phaseLog) = saveIdx
             /\ Len(phaseSaved) >= saveIdx - 1
             /\ wfError.kind \in {"ApiError", "FetchFailed"}
                => phaseSaved = PhaseIds(phases, saveIdx - 1)

\* of three phases the first was stored, the save of the second was rejected
\* and the third was never sent
C26_Witness ==
    /\ wf = "phase"
    /\ wfpc = "failed"
    /\ savePc = "thrown"
    /\ Len(phases) = 3
    /\ saveIdx = 2
    /\ phaseLog = <<phases[1].phase_id, phases[2].phase_id>>
    /\ phaseSaved = <<phases[1].phase_id>>

\* C27: a workout persistence request is issued only after the generation of
\* that expansion succeeded, and at most once per expansion (never retried);
\* an expansion whose 3 generation attempts all failed issues none.
C27_PersistOnceAfterGeneration ==
    \A i \in Invocations :
        /\ items[i].reqs <= 1
        /\ items[i].reqs = 1
           => /\ items[i].finalResult # NoObject
              /\ items[i].genLog # <<>>
              /\ items[i].genLog[Len(items[i].genLog)] = "object"
              /\ accessToken
        /\ items[i].persist \in {"sent", "ok", "rejected", "network", "unreadable"}
           <=> items[i].reqs = 1
        /\ items[i].error.kind = "GenerationFailed"
           => /\ items[i].reqs = 0
              /\ items[i].persist = "none"

\* with a token, one expansion exhausted its 3 attempts and sent nothing, and
\* its sibling's single request failed and was not sent again
C27_Witness ==
    /\ wf = "week"
    /\ accessToken
    /\ \E i, j \in DOMAIN items :
          /\ items[i].pc = "failed"
          /\ items[i].error.kind = "GenerationFailed"
          /\ items[i].calls = maxRetries
          /\ items[i].reqs = 0
          /\ items[j].pc = "done"
          /\ items[j].persist = "network"
          /\ items[j].reqs = 1

\* C28: whether an expansion persists its workout depends only on its own
\* generation outcome and on the token, never on its siblings: when a fan-out
\* fails because one expansion exhausted its retries, the workouts of the
\* expansions that succeeded may already be stored and stay stored, although
\* the caller receives no map.
C28_PersistenceIgnoresSiblings ==
    wf = "week"
    => /\ \A i \in DOMAIN items :
             items[i].reqs =
                 IF accessToken /\ items[i].finalResult # NoObject THEN 1 ELSE 0
       /\ wfpc = "failed"
          => /\ workoutMap = <<>>
             /\ \A i \in DOMAIN items :
                   (Returned(i) /\ items[i].persist = "ok") => items[i].plan.stored

\* the second expansion exhausted its retries and the run failed with its
\* error and no map, after the first had generated, sent its one request and
\* had it answered 2xx
C28_Witness ==
    /\ wf = "week"
    /\ wfpc = "failed"
    /\ workoutMap = <<>>
    /\ Len(items) = 2
    /\ items[2].pc = "failed"
    /\ items[2].calls = maxRetries
    /\ wfError = items[2].error
    /\ wfError.kind = "GenerationFailed"
    /\ items[1].reqs = 1
    /\ items[1].persist = "ok"
    /\ items[1].plan.stored

\* the ids of the aggregate step's input list
ResultIds == {results[i].id : i \in DOMAIN results}

\* the last result of the input list that carries id k
LastResultWithId(k) ==
    CHOOSE i \in DOMAIN results :
        results[i].id = k /\ \A j \in DOMAIN results : results[j].id = k => j <= i

\* C29: the aggregate step returns a map whose key set is exactly the set of
\* distinct ids of its input list; when two results share an id the map holds
\* one entry for it, the plan of the result later in input order, so the map
\* has as many entries as the batch had requests only if all ids are distinct.
C29_AggregateKeysAreDistinctIds ==
    (wf \in {"week", "legacy"} /\ wfpc = "success")
    => /\ DOMAIN workoutMap = ResultIds
       /\ \A k \in ResultIds : workoutMap[k] = results[LastResultWithId(k)].workoutPlan
       /\ Cardinality(DOMAIN workoutMap) <= Len(results)
       /\ Cardinality(DOMAIN workoutMap) = Len(batch)
          <=> \A i, j \in DOMAIN batch : batch[i].id = batch[j].id => i = j

\* two results with one id and different plans gave a map of one entry, the
\* plan of the second
C29_Witness ==
    /\ wf = "week"
    /\ wfpc = "success"
    /\ Len(results) = 2
    /\ results[1].id = results[2].id
    /\ results[1].workoutPlan # results[2].workoutPlan
    /\ Cardinality(DOMAIN workoutMap) = 1
    /\ workoutMap[results[2].id] = results[2].workoutPlan

\* the clients created for a token, and the resolutions of a token whose load failed
ClientsFor(token) == {k \in DOMAIN resolver.clients : resolver.clients[k] = token}
FailedLoads(token) ==
    {r \in DOMAIN resolver.calls :
        /\ resolver.calls[r].token = token
        /\ resolver.calls[r].pc = "returned"
        /\ resolver.calls[r].client # 0
        /\ resolver.calls[r].tools = NoTools}

\* C30 (as claimed): for each access token the tool resolver creates an MCP
\* client at most once, also when several resolutions with the same token run
\* concurrently: as long as no load of the token has failed, one client exists
\* for it; a resolution after a successful load returns the cached tools, and
\* a failed load or a missing token returns no tools and caches nothing.
C30_OneClientPerToken ==
    /\ \A token \in AccessTokens :
          FailedLoads(token) = {} => Cardinality(ClientsFor(token)) <= 1
    /\ \A r \in DOMAIN resolver.calls :
          LET call == resolver.calls[r] IN
          /\ call.cached => call.tools \in {ToolsOf(k) : k \in ClientsFor(call.token)}
          /\ (call.token = NoToken) => (call.pc = "returned" /\ call.tools = NoTools)
    /\ NoToken \notin DOMAIN resolver.toolsCache
    /\ \A token \in DOMAIN resolver.toolsCache :
          \E r \in DOMAIN resolver.calls :
             /\ resolver.calls[r].token = token
             /\ resolver.calls[r].client # 0
             /\ resolver.calls[r].tools = resolver.toolsCache[token]

====
